---- MODULE Spec2Model ----
(***************************************************************************)
(* Caesar-cipher cryptanalysis (main.py): normalize_text,                  *)
(* decrypt_cesar_frequency_analysis and bruteforce_cesar.                  *)
(*                                                                         *)
(* A character is its Unicode code point; a string is a sequence of code   *)
(* points.  The Python str predicates the code relies on (isalpha,         *)
(* isupper, islower, lower, upper, unicodedata.normalize('NFD'),           *)
(* unicodedata.category) are tabulated for the code points below.          *)
(***************************************************************************)
EXTENDS Integers, Sequences, FiniteSets, TLC

(***************************************************************************)
(* Bounds of the exploration.                                              *)
(***************************************************************************)
MaxLenFreq == 3
MaxLenBrute == 3

(***************************************************************************)
(* Code points.                                                            *)
(***************************************************************************)
SPACE == 32
DIGIT1 == 49
SEMICOLON == 59
GREEKQUESTION == 894
COMBACUTE == 769
EACUTE == 233
CAPEACUTE == 201
OSLASH == 248
CAPOSLASH == 216
CJK == 20013

LatinLower == 97..122
LatinUpper == 65..90

\* str.isupper() of one character
IsUpper(c) == c \in LatinUpper \cup {CAPEACUTE, CAPOSLASH}

\* str.islower() of one character
IsLower(c) == c \in LatinLower \cup {EACUTE, OSLASH}

\* str.isalpha() of one character
IsAlpha(c) == IsUpper(c) \/ IsLower(c) \/ c = CJK

\* str.isspace() of one character, as used by str.split()
IsSpace(c) == c = SPACE

\* str.lower() of one character
Lower(c) ==
  IF c \in LatinUpper THEN c + 32
  ELSE IF c = CAPEACUTE THEN EACUTE
  ELSE IF c = CAPOSLASH THEN OSLASH
  ELSE c

\* str.upper() of one character
Upper(c) ==
  IF c \in LatinLower THEN c - 32
  ELSE IF c = EACUTE THEN CAPEACUTE
  ELSE IF c = OSLASH THEN CAPOSLASH
  ELSE c

\* unicodedata.normalize('NFD', c): canonical decomposition of one character
NFD(c) ==
  IF c = EACUTE THEN <<101, COMBACUTE>>
  ELSE IF c = CAPEACUTE THEN <<69, COMBACUTE>>
  ELSE IF c = GREEKQUESTION THEN <<SEMICOLON>>
  ELSE <<c>>

\* unicodedata.category(c) == 'Mn'
IsMn(c) == c = COMBACUTE

(***************************************************************************)
(* normalize_text                                                          *)
(***************************************************************************)
RECURSIVE Decompose(_)
Decompose(text) ==
  IF text = <<>> THEN <<>> ELSE NFD(Head(text)) \o Decompose(Tail(text))

normalize_text(text) == SelectSeq(Decompose(text), LAMBDA c : ~IsMn(c))

(***************************************************************************)
(* The alphabet and the per-character decode shared by both analyses.      *)
(***************************************************************************)
alphabet == [i \in 1..26 |-> 96 + i]

\* c in alphabet: alphabet.index(c) does not raise ValueError
InAlphabet(c) == \E i \in 1..26 : alphabet[i] = c

\* alphabet.index(c), zero-based
AlphabetIndex(c) == (CHOOSE i \in 1..26 : alphabet[i] = c) - 1

\* variant: the shift is added instead of subtracted
ShiftedLetterForward(c, shift) == alphabet[((AlphabetIndex(Lower(c)) + shift) % 26) + 1]

\* alphabet[(alphabet.index(char.lower()) - shift) % 26]
ShiftedLetter(c, shift) == alphabet[((AlphabetIndex(Lower(c)) - shift) % 26) + 1]

\* one element of the decoding generator expression raises ValueError
DecodeCharFaults(c) == (IsUpper(c) \/ IsLower(c)) /\ ~InAlphabet(Lower(c))

\* one element of the decoding generator expression
DecodeChar(c, shift) ==
  IF IsUpper(c) THEN Upper(ShiftedLetter(c, shift))
  ELSE IF IsLower(c) THEN ShiftedLetter(c, shift)
  ELSE c

DecodeFaults(text) == \E i \in 1..Len(text) : DecodeCharFaults(text[i])

\* ''.join(... for char in cipher_text)
Decode(text, shift) == [i \in 1..Len(text) |-> DecodeChar(text[i], shift)]

(***************************************************************************)
(* Optional values: None is <<>>, a value v is <<v>>.                      *)
(***************************************************************************)
None == <<>>
Some(v) == <<v>>

\* Ratios are fractions <<n, d>> with d >= 1; the integer 0 is <<0, 1>>.
Zero == <<0, 1>>
RatioGT(a, b) == a[1] * b[2] > b[1] * a[2]
RatioEQ(a, b) == a[1] * b[2] = b[1] * a[2]

(***************************************************************************)
(* decrypt_cesar_frequency_analysis                                        *)
(***************************************************************************)
\* variant: only the 26 Latin letters are counted
CountedLatinLetters(text) ==
  LET alpha == SelectSeq(text, LAMBDA c : InAlphabet(Lower(c)))
  IN  [i \in 1..Len(alpha) |-> Lower(alpha[i])]

\* the sequence the Counter is fed with
CountedLetters(text) ==
  LET alpha == SelectSeq(text, IsAlpha)
  IN  [i \in 1..Len(alpha) |-> Lower(alpha[i])]

\* number of occurrences of l
Count(letters, l) == Cardinality({i \in 1..Len(letters) : letters[i] = l})

\* Counter.most_common(1)[0][0]: the first key, in insertion order, whose
\* count is the maximum
most_common_letter(letters) ==
  LET maxCount == CHOOSE n \in 1..Len(letters) :
                    /\ \E i \in 1..Len(letters) : Count(letters, letters[i]) = n
                    /\ \A i \in 1..Len(letters) : Count(letters, letters[i]) <= n
      first == CHOOSE i \in 1..Len(letters) :
                 /\ Count(letters, letters[i]) = maxCount
                 /\ \A j \in 1..(i - 1) : Count(letters, letters[j]) # maxCount
  IN  letters[first]

\* variant: the two positions are subtracted the other way round
FrequencyShiftReversed(m, t) == (AlphabetIndex(t) - AlphabetIndex(m)) % 26

\* shift = (alphabet.index(most_common_letter) - alphabet.index(target_letter)) % 26
FrequencyShift(m, t) == (AlphabetIndex(m) - AlphabetIndex(t)) % 26

(***************************************************************************)
(* bruteforce_cesar helpers                                                *)
(***************************************************************************)
\* str.split(): maximal runs of non-whitespace characters, in order
RECURSIVE Split(_, _)
Split(text, word) ==
  IF text = <<>> THEN (IF word = <<>> THEN <<>> ELSE <<word>>)
  ELSE IF IsSpace(Head(text))
       THEN (IF word = <<>> THEN <<>> ELSE <<word>>) \o Split(Tail(text), <<>>)
       ELSE Split(Tail(text), Append(word, Head(text)))

Words(text) == Split(text, <<>>)

\* word.lower()
LowerWord(word) == [i \in 1..Len(word) |-> Lower(word[i])]

\* valid_words = [word.lower() for word in words if word.lower() in vocabulary]
ValidWords(words, vocab) ==
  SelectSeq([i \in 1..Len(words) |-> LowerWord(words[i])], LAMBDA w : w \in vocab)

\* variant: the valid words are counted as a set, without repetitions
ValidRatioDistinct(text, vocab) ==
  LET words == Words(text)
      valid == ValidWords(words, vocab)
  IN  IF words = <<>> THEN Zero
      ELSE <<Cardinality({valid[i] : i \in 1..Len(valid)}), Len(words)>>

\* valid_ratio = len(valid_words) / len(words) if words else 0
ValidRatio(text, vocab) ==
  LET words == Words(text)
  IN  IF words = <<>> THEN Zero ELSE <<Len(ValidWords(words, vocab)), Len(words)>>

\* variant: a candidate as good as the best replaces it
IsBetterOrEqual(valid_ratio, best) == ~RatioGT(best, valid_ratio)

\* if valid_ratio > best_valid_ratio
IsBetter(valid_ratio, best) == RatioGT(valid_ratio, best)

\* assert best_match: None and the empty string are falsy
Truthy(opt) == opt # None /\ opt[1] # <<>>

(***************************************************************************)
(* Inputs.  A ciphertext is a plaintext encoded by adding a key to every   *)
(* Latin letter (the cipher the program attacks); key 0 gives every        *)
(* plaintext itself as a ciphertext.                                       *)
(***************************************************************************)
EncodeChar(c, k) ==
  IF c \in LatinLower THEN 97 + ((c - 97 + k) % 26)
  ELSE IF c \in LatinUpper THEN 65 + ((c - 65 + k) % 26)
  ELSE c

Encode(text, k) == [i \in 1..Len(text) |-> EncodeChar(text[i], k)]

Strings(S, n) == UNION {[1..m -> S] : m \in 0..n}

Keys == 0..25

FreqChars == {101, 97, 69, DIGIT1, GREEKQUESTION, COMBACUTE, EACUTE, OSLASH, CJK}
BruteChars == {97, 98, 65, SPACE, EACUTE}

\* target_letter arguments: the default 'e', another letter, and a string
\* that is not a single character
Targets == {<<101>>, <<118>>, <<101, 97>>}

\* vocabularies: set() is what create_gui falls back to when the download fails
Vocabularies == {{}, {<<97>>, <<98>>}, {<<97>>, <<97, 98>>}}

VARIABLES
  pc,               \* "ready", "loop", "assert", "returned", "AssertionError", "ValueError"
  call,             \* "none", "frequency", "bruteforce"
  plain, key,       \* how the ciphertext was produced
  cipher_text,      \* argument cipher_text
  target_letter,    \* argument target_letter
  vocabulary,       \* argument vocabulary
  shift,            \* shift computed (frequency) or loop variable (bruteforce)
  decrypted_text,   \* last decrypted_text
  best_match, best_shift, best_valid_ratio,
  tried,            \* the shifts whose evaluation has started, in order
  ratios,           \* the valid_ratio computed for each of them, in order
  result            \* the returned tuple

vars == <<pc, call, plain, key, cipher_text, target_letter, vocabulary, shift,
          decrypted_text, best_match, best_shift, best_valid_ratio, tried, ratios,
          result>>

NoResult == [text |-> None, shift |-> None, ratio |-> Zero]

Init ==
  /\ pc = "ready"
  /\ call = "none"
  /\ plain = <<>>
  /\ key = 0
  /\ cipher_text = <<>>
  /\ target_letter = <<>>
  /\ vocabulary = {}
  /\ shift = 0
  /\ decrypted_text = <<>>
  /\ best_match = None
  /\ best_shift = None
  /\ best_valid_ratio = Zero
  /\ tried = <<>>
  /\ ratios = <<>>
  /\ result = NoResult

(***************************************************************************)
(* decrypt_cesar_frequency_analysis(cipher_text, target_letter)            *)
(***************************************************************************)
FrequencyAnalysis(P, k, t) ==
  /\ pc = "ready"
  /\ call' = "frequency"
  /\ plain' = P
  /\ key' = k
  /\ cipher_text' = Encode(P, k)
  /\ target_letter' = t
  /\ UNCHANGED <<vocabulary, best_match, best_shift, best_valid_ratio, tried, ratios>>
  /\ LET text == normalize_text(Encode(P, k))
         letters == CountedLetters(text)
     IN  IF Len(t) # 1
         THEN \* assert len(target_letter) == 1
              /\ pc' = "AssertionError"
              /\ UNCHANGED <<shift, decrypted_text, result>>
         ELSE IF letters = <<>>
         THEN \* return None, None
              /\ pc' = "returned"
              /\ result' = NoResult
              /\ UNCHANGED <<shift, decrypted_text>>
         ELSE IF ~InAlphabet(most_common_letter(letters)) \/ ~InAlphabet(t[1])
         THEN \* alphabet.index raises ValueError
              /\ pc' = "ValueError"
              /\ UNCHANGED <<shift, decrypted_text, result>>
         ELSE LET s == FrequencyShift(most_common_letter(letters), t[1])
              IN  /\ shift' = s
                  /\ IF DecodeFaults(text)
                     THEN /\ pc' = "ValueError"
                          /\ UNCHANGED <<decrypted_text, result>>
                     ELSE /\ decrypted_text' = Decode(text, s)
                          /\ IF Decode(text, s) = <<>>
                             THEN \* assert decrypted_text
                                  /\ pc' = "AssertionError"
                                  /\ UNCHANGED result
                             ELSE /\ pc' = "returned"
                                  /\ result' = [text |-> Some(Decode(text, s)),
                                                shift |-> Some(s),
                                                ratio |-> Zero]

(***************************************************************************)
(* bruteforce_cesar(cipher_text, vocabulary)                               *)
(***************************************************************************)
\* entry: best_match = None, best_shift = None, best_valid_ratio = 0
BruteforceCall(P, k, V) ==
  /\ pc = "ready"
  /\ pc' = "loop"
  /\ call' = "bruteforce"
  /\ plain' = P
  /\ key' = k
  /\ cipher_text' = Encode(P, k)
  /\ vocabulary' = V
  /\ shift' = 1
  /\ best_match' = None
  /\ best_shift' = None
  /\ best_valid_ratio' = Zero
  /\ UNCHANGED <<target_letter, decrypted_text, tried, ratios, result>>

\* one iteration of: for shift in range(1, 26)
BruteforceStep ==
  /\ pc = "loop"
  /\ shift <= 25
  /\ tried' = Append(tried, shift)
  /\ UNCHANGED <<call, plain, key, cipher_text, target_letter, vocabulary, result>>
  /\ IF DecodeFaults(cipher_text)
     THEN /\ pc' = "ValueError"
          /\ UNCHANGED <<shift, decrypted_text, best_match, best_shift, best_valid_ratio,
                         ratios>>
     ELSE LET text == Decode(cipher_text, shift)
              valid_ratio == ValidRatio(text, vocabulary)
          IN  /\ decrypted_text' = text
              /\ ratios' = Append(ratios, valid_ratio)
              /\ IF IsBetter(valid_ratio, best_valid_ratio)
                 THEN /\ best_match' = Some(text)
                      /\ best_shift' = Some(shift)
                      /\ best_valid_ratio' = valid_ratio
                 ELSE UNCHANGED <<best_match, best_shift, best_valid_ratio>>
              /\ shift' = shift + 1
              /\ pc' = IF shift = 25 THEN "assert" ELSE "loop"

\* assert best_match; return best_match, best_shift, best_valid_ratio
BruteforceReturn ==
  /\ pc = "assert"
  /\ UNCHANGED <<call, plain, key, cipher_text, target_letter, vocabulary, shift,
                 decrypted_text, best_match, best_shift, best_valid_ratio, tried,
                 ratios>>
  /\ IF Truthy(best_match)
     THEN /\ pc' = "returned"
          /\ result' = [text |-> best_match, shift |-> best_shift,
                        ratio |-> best_valid_ratio]
     ELSE /\ pc' = "AssertionError"
          /\ UNCHANGED result

FrequencyInputs == Strings(FreqChars, MaxLenFreq)
BruteInputs == Strings(BruteChars, MaxLenBrute)

CallFrequency ==
  /\ pc = "ready"
  /\ \E P \in FrequencyInputs, k \in Keys, t \in Targets : FrequencyAnalysis(P, k, t)

CallBruteforce ==
  /\ pc = "ready"
  /\ \E P \in BruteInputs, k \in Keys, V \in Vocabularies : BruteforceCall(P, k, V)

NextFreq == CallFrequency
NextBrute == CallBruteforce \/ BruteforceStep \/ BruteforceReturn
Next == CallFrequency \/ CallBruteforce \/ BruteforceStep \/ BruteforceReturn

SpecFreq == Init /\ [][NextFreq]_vars
SpecBrute == Init /\ [][NextBrute]_vars
Spec == Init /\ [][Next]_vars

(***************************************************************************)
(* Vocabulary used by the properties.                                      *)
(***************************************************************************)
IsLatin(c) == c \in LatinLower \cup LatinUpper

\* a call has ended: it returned or it raised
Finished == pc \in {"returned", "AssertionError", "ValueError"}

\* the string handed to the decoding expression: the normalised text in the
\* frequency analysis, the argument itself in the bruteforce
DecodeInput == IF call = "frequency" THEN normalize_text(cipher_text) ELSE cipher_text

\* a decoding has been carried out, and decrypted_text holds it
Decoded ==
  \/ call = "frequency" /\ pc = "returned" /\ result.text # None
  \/ call = "bruteforce" /\ tried # <<>> /\ pc # "ValueError"

\* the shift of that decoding
DecodeShift == IF call = "frequency" THEN shift ELSE tried[Len(tried)]

\* the valid-word ratio of the ciphertext decoded with shift s
RatioOf(s) == ValidRatio(Decode(cipher_text, s), vocabulary)

IsOne(r) == r[1] = r[2]

\* every word of text, case-folded, is in the vocabulary
AllWordsValid(text) ==
  \A j \in 1..Len(Words(text)) : LowerWord(Words(text)[j]) \in vocabulary

\* the plaintext is one or more words of Latin letters separated by
\* whitespace, every one of them in the vocabulary
PlainIsVocabularyWords ==
  /\ \A i \in 1..Len(plain) : IsLatin(plain[i]) \/ IsSpace(plain[i])
  /\ Words(plain) # <<>>
  /\ AllWordsValid(plain)

(***************************************************************************)
(* C1: bruteforce_cesar applied to a plaintext of vocabulary words encoded *)
(* with a key k in 1..25 returns ratio 1.0 and a text whose words are all  *)
(* in the vocabulary; when no shift smaller than k reaches ratio 1.0 it    *)
(* returns shift k and the plaintext itself.                               *)
(***************************************************************************)
C1_VocabularyPlaintextRecovered ==
  (call = "bruteforce" /\ Finished /\ key \in 1..25 /\ PlainIsVocabularyWords) =>
     /\ pc = "returned"
     /\ IsOne(result.ratio)
     /\ result.text # None
     /\ AllWordsValid(result.text[1])
     /\ (\A s \in 1..(key - 1) : ~IsOne(RatioOf(s))) =>
           /\ result.shift = Some(key)
           /\ result.text = Some(plain)

C1_Witness ==
  /\ call = "bruteforce" /\ pc = "returned" /\ PlainIsVocabularyWords
  /\ key = 3
  /\ result.shift = Some(3)
  /\ result.text = Some(plain)
  /\ IsOne(result.ratio)
  /\ Len(Words(plain)) = 2
  /\ \E i \in 1..Len(plain) : plain[i] \in LatinUpper

(***************************************************************************)
(* C2: on a plaintext of Latin letters and non-letters in which 'e' is the *)
(* most frequent letter, encoded with a key k in 0..25, the frequency      *)
(* analysis with target 'e' returns shift k and the plaintext.             *)
(***************************************************************************)
\* a non-letter: a digit, a punctuation mark or a whitespace character
IsNonLetter(c) == ~IsAlpha(c) /\ ~IsMn(c)

PlainLatinAndNonLetters ==
  \A i \in 1..Len(plain) : IsLatin(plain[i]) \/ IsNonLetter(plain[i])

\* 'e' occurs more often in the plaintext than every other letter
EMostFrequent ==
  LET letters == CountedLetters(plain)
  IN  \A l \in LatinLower \ {101} : Count(letters, 101) > Count(letters, l)

NoAlphabetic(text) == \A i \in 1..Len(text) : ~IsAlpha(text[i])

Absent == pc = "returned" /\ result.text = None /\ result.shift = None

C3_AbsentIffNoAlphabetic ==
  (call = "frequency" /\ Len(target_letter) = 1) =>
     /\ NoAlphabetic(cipher_text) => Absent
     /\ Absent => NoAlphabetic(cipher_text)

C3_Witness ==
  /\ call = "frequency" /\ Len(target_letter) = 1
  /\ Absent
  /\ Len(cipher_text) = 3
  /\ \E i, j \in 1..3 : cipher_text[i] = DIGIT1 /\ cipher_text[j] = COMBACUTE

(***************************************************************************)
(* C4: bruteforce_cesar called with an empty vocabulary completes with a   *)
(* result instead of propagating a failure to its caller.                  *)
(***************************************************************************)
C4_EmptyVocabularyNoFailure ==
  (call = "bruteforce" /\ vocabulary = {} /\ Words(cipher_text) # <<>>
     /\ ~DecodeFaults(cipher_text)) =>
     pc # "AssertionError"

(***************************************************************************)
(* C5: in every call of bruteforce_cesar the shifts evaluated are exactly  *)
(* 1, 2, ..., 25, each once and in ascending order, never 0; a returned    *)
(* shift is in 1..25.                                                      *)
(***************************************************************************)
C5_ShiftsOneToTwentyFive ==
  call = "bruteforce" =>
     /\ Len(tried) <= 25
     /\ \A i \in 1..Len(tried) : tried[i] = i
     /\ Finished => Len(tried) = 25
     /\ pc = "returned" => \E s \in 1..25 : result.shift = Some(s)

(***************************************************************************)
(* C6: the per-character decode inverts the Caesar encoding: a Latin       *)
(* letter is decoded to the letter of the same case that, shifted forward  *)
(* by the shift, gives it back; every non-letter is a fixed point; the     *)
(* decoded string has the length of its input.                             *)
(***************************************************************************)
C6_DecodeInvertsEncode ==
  Decoded =>
     /\ Len(decrypted_text) = Len(DecodeInput)
     /\ \A i \in 1..Len(DecodeInput) :
          /\ IsLatin(DecodeInput[i]) =>
               /\ IsLatin(decrypted_text[i])
               /\ (decrypted_text[i] \in LatinUpper) = (DecodeInput[i] \in LatinUpper)
               /\ EncodeChar(decrypted_text[i], DecodeShift) = DecodeInput[i]
          /\ ~IsAlpha(DecodeInput[i]) => decrypted_text[i] = DecodeInput[i]
     /\ (call = "bruteforce" /\ DecodeShift = key) => decrypted_text = plain

C6_Witness ==
  /\ Decoded /\ call = "bruteforce"
  /\ key = 3 /\ DecodeShift = 3
  /\ decrypted_text = plain
  /\ \E i, j, l \in 1..Len(plain) :
       plain[i] \in LatinUpper /\ plain[j] = SPACE /\ plain[l] = 98

(***************************************************************************)
(* C7: the decode returns every character outside the 26 Latin letters     *)
(* unchanged and without a fault; bruteforce_cesar completes its decode    *)
(* on a ciphertext with accented letters and leaves them in place.         *)
(***************************************************************************)
C7_NonLatinUnchanged ==
  (call = "bruteforce" /\ tried # <<>>) =>
     /\ pc # "ValueError"
     /\ Len(decrypted_text) = Len(cipher_text)
     /\ \A i \in 1..Len(cipher_text) :
          ~IsLatin(cipher_text[i]) => decrypted_text[i] = cipher_text[i]

(***************************************************************************)
(* C8: after shifts 1..i have been tried the tracked best is the first of  *)
(* them with the highest ratio (nothing while every ratio is 0); a         *)
(* returned triple is the smallest shift in 1..25 attaining the maximum    *)
(* ratio, the ciphertext decoded with it, and that ratio.                  *)
(***************************************************************************)
\* the first position of a sequence of ratios that holds its maximum
FirstBest(rs) ==
  CHOOSE b \in 1..Len(rs) :
    /\ \A s \in 1..Len(rs) : ~RatioGT(rs[s], rs[b])
    /\ \A s \in 1..(b - 1) : RatioGT(rs[b], rs[s])

C8_BestIsFirstMaximum ==
  (call = "bruteforce" /\ tried # <<>> /\ pc # "ValueError") =>
     LET n == Len(tried)
         b == FirstBest(ratios)
     IN  /\ Len(ratios) = n
         /\ ratios[n] = RatioOf(n)
         /\ \A s \in 1..n : ratios[s][1] >= 0 /\ ratios[s][1] <= ratios[s][2]
         /\ IF \A s \in 1..n : ratios[s][1] = 0
            THEN best_match = None /\ best_shift = None /\ best_valid_ratio = Zero
            ELSE /\ best_shift = Some(b)
                 /\ best_match = Some(Decode(cipher_text, b))
                 /\ best_valid_ratio = ratios[b]
         /\ pc = "returned" =>
              /\ n = 25
              /\ \A s \in 1..25 : ratios[s] = RatioOf(s)
              /\ result = [text |-> Some(Decode(cipher_text, b)),
                           shift |-> Some(b),
                           ratio |-> ratios[b]]

C8_Witness ==
  /\ call = "bruteforce" /\ pc = "returned"
  /\ result.ratio[1] > 0 /\ result.ratio[1] < result.ratio[2]
  /\ \E b \in 2..24 :
       /\ result.shift = Some(b)
       /\ \E s \in (b + 1)..25 : RatioEQ(RatioOf(s), result.ratio)

(***************************************************************************)
(* C9: on every ciphertext with at least one Latin letter and every        *)
(* lowercase Latin target t the frequency analysis returns                 *)
(* shift = (position(m) - position(t)) mod 26, m being the most frequent   *)
(* case-folded letter of the normalised text (earliest first occurrence    *)
(* among ties), and the normalised text decoded with that shift.           *)
(***************************************************************************)
\* the letter with the highest count whose first occurrence is earliest
MostFrequentFirst(letters) ==
  LET keys == {letters[i] : i \in 1..Len(letters)}
      top == {l \in keys : \A l2 \in keys : Count(letters, l2) <= Count(letters, l)}
      firstAt(l) == CHOOSE i \in 1..Len(letters) :
                      letters[i] = l /\ \A j \in 1..(i - 1) : letters[j] # l
  IN  CHOOSE l \in top : \A l2 \in top : firstAt(l) <= firstAt(l2)

C9_ShiftFromMostFrequent ==
  (call = "frequency" /\ Len(target_letter) = 1 /\ target_letter[1] \in LatinLower
     /\ \E i \in 1..Len(cipher_text) : IsLatin(cipher_text[i])) =>
     /\ pc = "returned"
     /\ LET text == normalize_text(cipher_text)
            m == MostFrequentFirst(CountedLetters(text))
            s == ((m - 97) - (target_letter[1] - 97)) % 26
        IN  /\ m \in LatinLower
            /\ result.shift = Some(s)
            /\ result.text # None
            /\ Len(result.text[1]) = Len(text)
            /\ \A i \in 1..Len(text) :
                 /\ text[i] = m => result.text[1][i] = target_letter[1]
                 /\ text[i] = m - 32 => result.text[1][i] = target_letter[1] - 32
                 /\ IsLatin(text[i]) => EncodeChar(result.text[1][i], s) = text[i]
                 /\ ~IsLatin(text[i]) => result.text[1][i] = text[i]

(***************************************************************************)
(* C10: bruteforce_cesar raises its assertion failure exactly when all 25  *)
(* shifts yield zero matched words; in every other case it returns a       *)
(* non-empty text, a shift in 1..25 and a ratio in (0, 1].                 *)
(***************************************************************************)
C10_AssertionIffAllZero ==
  (call = "bruteforce" /\ Finished) =>
     /\ pc \in {"returned", "AssertionError"}
     /\ (pc = "AssertionError") = (\A s \in 1..25 : RatioOf(s)[1] = 0)
     /\ pc = "returned" =>
          /\ result.text # None /\ result.text[1] # <<>>
          /\ \E s \in 1..25 : result.shift = Some(s)
          /\ result.ratio[1] > 0 /\ result.ratio[1] <= result.ratio[2]
====
